---- MODULE Spec2Model ----
(***************************************************************************)
(* A model of adb_scanner_v5.2_FINAL.py: the validators, the target-space  *)
(* generator (generate_ip_range, parse_ports) and the scan engine          *)
(* (ADBScanner.scan_async, its pool workers, stop_scan) as driven by the   *)
(* start/stop/save handlers of ScannerApp.                                 *)
(*                                                                         *)
(* Text is modelled as a sequence of one-character strings, so that        *)
(* parsing and formatting are computed, not assumed.                       *)
(***************************************************************************)
EXTENDS Integers, Sequences, FiniteSets, TLC

VARIABLES
  is_scanning,    \* ADBScanner.is_scanning
  devices_found,  \* ADBScanner.devices_found: insertion-ordered dict, as a sequence of records
  scan_result,    \* ADBScanner.scan_result
  settings,       \* ScannerApp.settings: the one ScanSettings object every scan is handed
  pc,             \* per scan invocation: where its thread is in scan_async
  targets,        \* per scan invocation: the local list `targets`
  pool,           \* per scan invocation: max_workers of its ThreadPoolExecutor
  units,          \* per scan invocation: the state of each submitted unit of work
  scanned,        \* per scan invocation: the local counter `scanned`
  devs,           \* per scan invocation: list(self.devices_found.values()) as evaluated at line 418
  notes,          \* per scan invocation: how many notifications of each kind it passed to _notify
  last,           \* the latest notification passed to _notify, and the scan that passed it
  stopNotes,      \* number of "[STOPPED]" notifications emitted by stop_scan
  processed,      \* per scan invocation: completions handled by the aggregation loop (history)
  observed,       \* per scan invocation: the loop saw is_scanning cleared and broke out (history)
  saves,          \* number of save_settings calls so far
  net,            \* what the network answers the unit of each target, where a run fixes it;
                  \* <<>> where every answer is open
  arg,            \* pure-function specifications: the input drawn
  ret,            \* pure-function specifications: the value returned
  phase           \* pure-function specifications: "call" before, "done" after the call

vars == <<is_scanning, devices_found, scan_result, settings, pc, targets, pool, units,
          scanned, devs, notes, last, stopNotes, processed, observed, saves,
          net, arg, ret, phase>>

engineVars == <<is_scanning, devices_found, scan_result, settings, pc, targets, pool, units,
                scanned, devs, notes, last, stopNotes, processed, observed, saves>>

\* What no step of the engine or of the handlers writes.
fnVars == <<net, arg, ret, phase>>

(***************************************************************************)
(* Bounds of the model.                                                    *)
(***************************************************************************)
MaxScans == 2
MaxStops == 1
MaxSaves == 1
MaxRange == 5

Scans == 1..MaxScans

(***************************************************************************)
(* Python values.                                                          *)
(***************************************************************************)
\* None, where the other values are natural numbers (progress=None, devices=None).
None == -1
\* int() raising ValueError, where the values parsed are natural numbers.
ValueError == -2

Min(a, b) == IF a <= b THEN a ELSE b

(***************************************************************************)
(* Text.                                                                   *)
(***************************************************************************)
Digits == <<"0", "1", "2", "3", "4", "5", "6", "7", "8", "9">>

IsDigit(c) == \E i \in 1..10 : Digits[i] = c

DigitVal(c) == (CHOOSE i \in 1..10 : Digits[i] = c) - 1

IsSpace(c) == c \in {" ", "\n", "\t"}

\* str.strip()
RECURSIVE LStrip(_)
LStrip(s) == IF s # <<>> /\ IsSpace(Head(s)) THEN LStrip(Tail(s)) ELSE s

RECURSIVE RStrip(_)
RStrip(s) == IF s # <<>> /\ IsSpace(s[Len(s)]) THEN RStrip(SubSeq(s, 1, Len(s) - 1)) ELSE s

Strip(s) == RStrip(LStrip(s))

\* str.split(sep) for a one-character separator: always at least one part.
RECURSIVE SplitFrom(_, _, _)
SplitFrom(s, sep, cur) ==
  IF s = <<>> THEN <<cur>>
  ELSE IF Head(s) = sep THEN <<cur>> \o SplitFrom(Tail(s), sep, <<>>)
  ELSE SplitFrom(Tail(s), sep, Append(cur, Head(s)))

Split(s, sep) == SplitFrom(s, sep, <<>>)

RECURSIVE DigitsValue(_, _)
DigitsValue(s, acc) ==
  IF s = <<>> THEN acc ELSE DigitsValue(Tail(s), 10 * acc + DigitVal(Head(s)))

RECURSIVE Concat(_)
Concat(parts) == IF parts = <<>> THEN <<>> ELSE Head(parts) \o Concat(Tail(parts))

\* int(s): surrounding whitespace is ignored, one leading "+" is allowed, and the digits
\* may be grouped by single underscores; anything else raises ValueError.  (A leading "-"
\* is not modelled: no text with "-" reaches int() in this program.)
ParseInt(s) ==
  LET t      == Strip(s)
      body   == IF t # <<>> /\ t[1] = "+" THEN Tail(t) ELSE t
      groups == Split(body, "_")
  IN IF \A g \in 1..Len(groups) :
          groups[g] # <<>> /\ \A i \in 1..Len(groups[g]) : IsDigit(groups[g][i])
     THEN DigitsValue(Concat(groups), 0)
     ELSE ValueError

\* str(n) for n >= 0
RECURSIVE IntToStr(_)
IntToStr(n) ==
  IF n < 10 THEN <<Digits[n + 1]>> ELSE Append(IntToStr(n \div 10), Digits[(n % 10) + 1])

\* sep.join(parts)
RECURSIVE Join(_, _)
Join(parts, sep) ==
  IF parts = <<>> THEN <<>>
  ELSE IF Len(parts) = 1 THEN parts[1]
  ELSE parts[1] \o <<sep>> \o Join(Tail(parts), sep)

(***************************************************************************)
(* Validators.                                                             *)
(***************************************************************************)
\* re.match(r'^(\d{1,3}\.){3}\d{1,3}$', ip): `$` also matches just before a final newline.
MatchesIpPattern(ip) ==
  LET body  == IF ip # <<>> /\ ip[Len(ip)] = "\n" THEN SubSeq(ip, 1, Len(ip) - 1) ELSE ip
      parts == Split(body, ".")
  IN /\ Len(parts) = 4
     /\ \A i \in 1..4 : /\ Len(parts[i]) \in 1..3
                        /\ \A j \in 1..Len(parts[i]) : IsDigit(parts[i][j])

validate_ip(ip) ==
  /\ MatchesIpPattern(ip)
  /\ LET parts == Split(ip, ".")
     IN \A i \in 1..Len(parts) : 0 <= ParseInt(parts[i]) /\ ParseInt(parts[i]) <= 255

validate_port(port) == 1 <= port /\ port <= 65535

\* A validator that forgets the upper limit.
validate_threads_NoCeiling(threads) == 1 <= threads

validate_threads(threads) == 1 <= threads /\ threads <= 200

\* ScanSettings.validate: the first failing check names the error.  timeout is kept in
\* tenths of a second (0.1 <= timeout <= 10.0 is 1 <= timeout10 <= 100).
ValidateSettings(st) ==
  IF ~validate_ip(st.ip_start) THEN "Invalid IP start"
  ELSE IF ~validate_ip(st.ip_end) THEN "Invalid IP end"
  ELSE IF ~validate_port(st.port_start) THEN "Invalid port start"
  ELSE IF ~validate_port(st.port_end) THEN "Invalid port end"
  ELSE IF st.port_start > st.port_end THEN "Port start cannot be greater than port end"
  ELSE IF ~validate_threads(st.threads) THEN "Invalid threads (1-200)"
  ELSE IF ~(1 <= st.timeout10 /\ st.timeout10 <= 100) THEN "Invalid timeout (0.1-10.0)"
  ELSE "OK"

(***************************************************************************)
(* Target space generator.                                                 *)
(***************************************************************************)
ip_to_tuple(ip) ==
  LET parts == Split(ip, ".")
  IN IF \A i \in 1..Len(parts) : ParseInt(parts[i]) # ValueError
     THEN [i \in 1..Len(parts) |-> ParseInt(parts[i])]
     ELSE <<0, 0, 0, 0>>

\* Python's tuple comparison a <= b (lexicographic; a proper prefix is smaller).
RECURSIVE TupleLeq(_, _)
TupleLeq(a, b) ==
  IF a = <<>> THEN TRUE
  ELSE IF b = <<>> THEN FALSE
  ELSE IF Head(a) < Head(b) THEN TRUE
  ELSE IF Head(a) > Head(b) THEN FALSE
  ELSE TupleLeq(Tail(a), Tail(b))

\* Lines 177-186: the increment of `current`, with its carries.
Increment(c) ==
  IF c[4] + 1 <= 255 THEN <<c[1], c[2], c[3], c[4] + 1>>
  ELSE IF c[3] + 1 <= 255 THEN <<c[1], c[2], c[3] + 1, 0>>
  ELSE IF c[2] + 1 <= 255 THEN <<c[1], c[2] + 1, 0, 0>>
  ELSE <<c[1] + 1, 0, 0, 0>>

FormatIp(c) == Join([i \in 1..Len(c) |-> IntToStr(c[i])], ".")

\* Lines 174-186: the while loop.
RECURSIVE RangeLoop(_, _, _)
RangeLoop(current, end, ips) ==
  IF TupleLeq(current, end)
  THEN RangeLoop(Increment(current), end, Append(ips, FormatIp(current)))
  ELSE ips

generate_ip_range(ip_start, ip_end) ==
  IF ~validate_ip(ip_start) \/ ~validate_ip(ip_end) THEN <<>>
  ELSE RangeLoop(ip_to_tuple(ip_start), ip_to_tuple(ip_end), <<>>)

\* A sort that puts the largest port first.
RECURSIVE Sorted_Descending(_)
Sorted_Descending(S) ==
  IF S = {} THEN <<>>
  ELSE LET m == CHOOSE x \in S : \A y \in S : x >= y
       IN <<m>> \o Sorted_Descending(S \ {m})

\* sorted(list(ports)) of a set of integers
RECURSIVE Sorted(_)
Sorted(S) ==
  IF S = {} THEN <<>>
  ELSE LET m == CHOOSE x \in S : \A y \in S : x <= y
       IN <<m>> \o Sorted(S \ {m})

\* Lines 204-215: the loop over the comma-separated tokens.  The one try block
\* encloses the whole loop, so the first ValueError ends it, keeping what was added.
RECURSIVE ParseTokens(_, _)
ParseTokens(toks, ports) ==
  IF toks = <<>> THEN ports
  ELSE LET p_str == Strip(Head(toks))
       IN IF \E i \in 1..Len(p_str) : p_str[i] = "-"
          THEN LET parts == Split(p_str, "-")
               IN IF Len(parts) = 2
                  THEN LET p1 == ParseInt(parts[1])
                           p2 == ParseInt(parts[2])
                       IN IF p1 = ValueError \/ p2 = ValueError THEN ports
                          ELSE IF validate_port(p1) /\ validate_port(p2) /\ p1 <= p2
                               THEN ParseTokens(Tail(toks), ports \cup (p1..p2))
                               ELSE ParseTokens(Tail(toks), ports)
                  ELSE ParseTokens(Tail(toks), ports)
          ELSE LET p == ParseInt(p_str)
               IN IF p = ValueError THEN ports
                  ELSE IF validate_port(p) THEN ParseTokens(Tail(toks), ports \cup {p})
                       ELSE ParseTokens(Tail(toks), ports)

\* A parser that leaves the range port_start..port_end out.
parse_ports_CustomOnly(port_string, port_start, port_end) ==
  Sorted(ParseTokens(Split(port_string, ","), {}))

\* parse_ports, lines 193-219
parse_ports(port_string, port_start, port_end) ==
  LET fromRange == IF validate_port(port_start) /\ validate_port(port_end)
                   THEN port_start..port_end ELSE {}
  IN Sorted(ParseTokens(Split(port_string, ","), fromRange))

(***************************************************************************)
(* Probe layer.  What a probe answers is the network's choice: each probe  *)
(* outcome is an input of the unit of work.                                *)
(***************************************************************************)
NoDevice == [kind |-> "none", device_type |-> "", status |-> ""]

Raised == [kind |-> "raise", device_type |-> "", status |-> ""]

DeviceInfo(device_type) == [kind |-> "device", device_type |-> device_type, status |-> "online"]

\* _identify_device: adb_ok is the outcome of `adb connect`, c1 of the _check_port of the
\* SSH/Telnet branch, c2 of the _check_port of the final "Unknown" branch.
identify_device(port, adb_ok, c1, c2) ==
  IF port \in {5037, 5555} /\ adb_ok THEN DeviceInfo("ADB")
  ELSE IF port = 22 /\ c1 THEN DeviceInfo("SSH")
  ELSE IF port = 23 /\ c1 THEN DeviceInfo("Telnet")
  ELSE IF c2 THEN DeviceInfo("Unknown")
  ELSE NoDevice

\* A unit that identifies without looking at the answer of its TCP connect.
scan_single_target_NoConnectCheck(port, skip_ping, ping_ok, port_ok, adb_ok, c1, c2) ==
  IF ~skip_ping /\ ~ping_ok THEN NoDevice
  ELSE identify_device(port, adb_ok, c1, c2)

\* _scan_single_target
scan_single_target(port, skip_ping, ping_ok, port_ok, adb_ok, c1, c2) ==
  IF ~skip_ping /\ ~ping_ok THEN NoDevice
  ELSE IF ~port_ok THEN NoDevice
  ELSE identify_device(port, adb_ok, c1, c2)

\* _scan_single_target, lines 333-342: the probes the unit calls, in the order of the calls
\* (_ping_host, _check_port, _identify_device).
scan_single_target_probes(skip_ping, ping_ok, port_ok) ==
  IF ~skip_ping /\ ~ping_ok THEN <<"ping">>
  ELSE (IF skip_ping THEN <<>> ELSE <<"ping">>)
         \o (IF ~port_ok THEN <<"connect">> ELSE <<"connect", "identify">>)

(***************************************************************************)
(* The settings a run may be handed.                                       *)
(***************************************************************************)
Ip(a, b, c, d) == FormatIp(<<a, b, c, d>>)

\* One address and the ports 80 (the range) and 81 (the custom list): two targets.
BaseSettings ==
  [ip_start |-> Ip(10, 0, 0, 1), ip_end |-> Ip(10, 0, 0, 1),
   port_start |-> 80, port_end |-> 80, custom_ports |-> <<"8", "1">>,
   timeout10 |-> 10, threads |-> 1, skip_ping |-> TRUE]

\* Settings with an invalid start address, which also differ from BaseSettings in
\* skip_ping and in the timeout (5.0 s).
BadIpSettings ==
  [BaseSettings EXCEPT !.ip_start = <<"2", "5", "6", ".", "0", ".", "0", ".", "1">>,
                       !.skip_ping = FALSE, !.timeout10 = 50]

\* Settings the operator saves in the settings tab while the application runs.
SavedSettings == {BaseSettings, BadIpSettings}

\* Settings the engine may be handed at its first scan request: valid ones, one with an
\* empty address range, and one for each way of failing ScanSettings.validate.
InitialSettings ==
  SavedSettings \cup { [BaseSettings EXCEPT !.ip_start = Ip(10, 0, 0, 2)],
                       [BaseSettings EXCEPT !.ip_end = <<"1", "0", ".", "0", ".", "0">>],
                       [BaseSettings EXCEPT !.port_start = 0],
                       [BaseSettings EXCEPT !.port_end = 65536],
                       [BaseSettings EXCEPT !.port_start = 81],
                       [BaseSettings EXCEPT !.threads = 201],
                       [BaseSettings EXCEPT !.threads = 0],
                       [BaseSettings EXCEPT !.timeout10 = 0],
                       [BaseSettings EXCEPT !.timeout10 = 101] }

(***************************************************************************)
(* Scan engine.                                                            *)
(***************************************************************************)
\* The key f"{device.ip}:{device.port}"
KeyOf(ip, port) == ip \o <<":">> \o IntToStr(port)

\* self.devices_found[key] = device, on an insertion-ordered dict
DictSet(d, key, dev) ==
  IF \E i \in 1..Len(d) : d[i].key = key
  THEN [i \in 1..Len(d) |-> IF d[i].key = key THEN [key |-> key, dev |-> dev] ELSE d[i]]
  ELSE Append(d, [key |-> key, dev |-> dev])

\* A listing of the map that loses its last entry.
DictValues_DropLast(d) == [i \in 1..(Len(d) - 1) |-> d[i].dev]

\* list(self.devices_found.values())
DictValues(d) == [i \in 1..Len(d) |-> d[i].dev]

\* A pairing of the i-th address with the i-th port.
TargetList_Zipped(ips, ports) ==
  [k \in 1..(IF Len(ips) < Len(ports) THEN Len(ips) ELSE Len(ports)) |->
     [ip |-> ips[k], port |-> ports[k]]]

\* targets = [(ip, port) for ip in ips for port in ports]
TargetList(ips, ports) ==
  [k \in 1..(Len(ips) * Len(ports)) |->
     [ip |-> ips[((k - 1) \div Len(ports)) + 1], port |-> ports[((k - 1) % Len(ports)) + 1]]]

\* Lines 365-372
GeneratedTargets(st) ==
  TargetList(generate_ip_range(st.ip_start, st.ip_end),
             parse_ports(st.custom_ports, st.port_start, st.port_end))

\* What a unit of work may end with: what _scan_single_target returns for some answers
\* of the probes, or an exception.
UnitOutcomes(port, skip_ping) ==
  {Raised} \cup
  { scan_single_target(port, skip_ping, ping_ok, port_ok, adb_ok, c1, c2) :
      ping_ok \in BOOLEAN, port_ok \in BOOLEAN, adb_ok \in BOOLEAN,
      c1 \in BOOLEAN, c2 \in BOOLEAN }

DeviceTypes == {"ADB", "SSH", "Telnet", "Unknown"}

\* The DeviceInfo a unit returns for its target.
DeviceRecord(target, res) ==
  [ip |-> target.ip, port |-> target.port, device_type |-> res.device_type,
   status |-> res.status]

\* A call of _notify(message, progress, devices); progress is <<num, den>> for num/den,
\* or <<>> for None.
Note(kind, progress, devices) == [kind |-> kind, progress |-> progress, devices |-> devices]

NoteKinds == {"ERROR", "SCAN_START", "FOUND", "PROGRESS", "COMPLETE"}

\* self._notify(...) called by scan s.  The callback is whatever set_callback was given;
\* where it may raise, the caller's action says what the raise leads to.
Notify(s, note) ==
  /\ notes' = [notes EXCEPT ![s][note.kind] = @ + 1]
  /\ last' = [scan |-> s, note |-> note]

\* Lines 432-434: a notification whose callback raised inside the outer try block is
\* followed by the error notification of the except clause.
NotifyThenError(s, note) ==
  /\ notes' = [notes EXCEPT ![s] = [k \in NoteKinds |->
                  notes[s][k] + (IF k = note.kind THEN 1 ELSE 0) + (IF k = "ERROR" THEN 1 ELSE 0)]]
  /\ last' = [scan |-> s, note |-> Note("ERROR", <<>>, None)]

\* The units of scan s that a pool worker is executing.
Executing(s) == {u \in 1..Len(units[s]) : units[s][u].st = "running"}

MaxUnits == 4

Init ==
  /\ is_scanning = FALSE
  /\ devices_found = <<>>
  /\ scan_result = [devices |-> <<>>, total_scanned |-> 0, total_found |-> 0]
  /\ settings \in InitialSettings
  /\ pc = [s \in Scans |-> "idle"]
  /\ targets = [s \in Scans |-> <<>>]
  /\ pool = [s \in Scans |-> 0]
  /\ units = [s \in Scans |-> <<>>]
  /\ scanned = [s \in Scans |-> 0]
  /\ devs = [s \in Scans |-> <<>>]
  /\ notes = [s \in Scans |-> [k \in NoteKinds |-> 0]]
  /\ last = [scan |-> 0, note |-> Note("", <<>>, None)]
  /\ stopNotes = 0
  /\ processed = [s \in Scans |-> 0]
  /\ observed = [s \in Scans |-> FALSE]
  /\ saves = 0
  /\ net = <<>>
  /\ arg = <<>>
  /\ ret = <<>>
  /\ phase = "unused"

\* ScannerApp start_scan (lines 690-708): a scan thread is created when is_scanning is
\* false; the thread calls scan_async with the shared settings object.
StartScan(s) ==
  /\ ~is_scanning
  /\ pc[s] = "idle"
  /\ \A t \in Scans : t < s => pc[t] # "idle"
  /\ pc' = [pc EXCEPT ![s] = "started"]
  /\ UNCHANGED <<is_scanning, devices_found, scan_result, settings, targets, pool, units,
                 scanned, devs, notes, last, stopNotes, processed, observed, saves>>
  /\ UNCHANGED fnVars

\* ADBScanner.stop_scan
StopScan ==
  /\ stopNotes < MaxStops
  /\ is_scanning' = FALSE
  /\ stopNotes' = stopNotes + 1
  /\ UNCHANGED <<devices_found, scan_result, settings, pc, targets, pool, units,
                 scanned, devs, notes, last, processed, observed, saves>>
  /\ UNCHANGED fnVars

\* ScannerApp save_settings: the fields of the shared settings object are overwritten,
\* valid or not.
SaveSettings(new) ==
  /\ saves < MaxSaves
  /\ new # settings
  /\ settings' = new
  /\ saves' = saves + 1
  /\ UNCHANGED <<is_scanning, devices_found, scan_result, pc, targets, pool, units,
                 scanned, devs, notes, last, stopNotes, processed, observed>>
  /\ UNCHANGED fnVars

\* scan_async, lines 348-352: validation fails.  The call is outside the try block: if
\* the callback raises, scan_async is left the same way, by the exception.
ValidateFail(s) ==
  /\ pc[s] = "started"
  /\ ValidateSettings(settings) # "OK"
  /\ Notify(s, Note("ERROR", <<>>, None))
  /\ pc' = [pc EXCEPT ![s] = "returned"]
  /\ UNCHANGED <<is_scanning, devices_found, scan_result, settings, targets, pool, units,
                 scanned, devs, stopNotes, processed, observed, saves>>
  /\ UNCHANGED fnVars

\* scan_async, lines 348-359: validation passes, the thread count is capped, the flag is set.
Begin(s) ==
  /\ pc[s] = "started"
  /\ ValidateSettings(settings) = "OK"
  /\ settings' = IF settings.threads > 200 THEN [settings EXCEPT !.threads = 200] ELSE settings
  /\ is_scanning' = TRUE
  /\ pc' = [pc EXCEPT ![s] = "reset"]
  /\ UNCHANGED <<devices_found, scan_result, targets, pool, units,
                 scanned, devs, notes, last, stopNotes, processed, observed, saves>>
  /\ UNCHANGED fnVars

\* scan_async, lines 360-370 and 432-437: the map is reset; there is nothing to scan.
GenerateEmpty(s, cb_raises) ==
  /\ pc[s] = "reset"
  /\ GeneratedTargets(settings) = <<>>
  /\ devices_found' = <<>>
  /\ IF cb_raises THEN NotifyThenError(s, Note("ERROR", <<>>, None))
                  ELSE Notify(s, Note("ERROR", <<>>, None))
  /\ is_scanning' = FALSE
  /\ pc' = [pc EXCEPT ![s] = "returned"]
  /\ UNCHANGED <<scan_result, settings, targets, pool, units,
                 scanned, devs, stopNotes, processed, observed, saves>>
  /\ UNCHANGED fnVars

\* scan_async, lines 360-373: the map is reset and the targets are generated.
Generate(s) ==
  /\ pc[s] = "reset"
  /\ GeneratedTargets(settings) # <<>>
  /\ Len(GeneratedTargets(settings)) <= MaxUnits
  /\ devices_found' = <<>>
  /\ targets' = [targets EXCEPT ![s] = GeneratedTargets(settings)]
  /\ pc' = [pc EXCEPT ![s] = "announce"]
  /\ UNCHANGED <<is_scanning, scan_result, settings, pool, units, scanned,
                 devs, notes, last, stopNotes, processed, observed, saves>>
  /\ UNCHANGED fnVars

\* scan_async, lines 375-384: the start notification; then every target is submitted to a
\* pool of settings.threads workers.  If the callback raises, lines 432-437 end the scan.
Announce(s, cb_raises) ==
  /\ pc[s] = "announce"
  /\ IF cb_raises
     THEN /\ NotifyThenError(s, Note("SCAN_START", <<>>, None))
          /\ is_scanning' = FALSE
          /\ targets' = [targets EXCEPT ![s] = <<>>]
          /\ pc' = [pc EXCEPT ![s] = "returned"]
          /\ UNCHANGED <<scanned, pool, units>>
     ELSE /\ Notify(s, Note("SCAN_START", <<>>, None))
          /\ scanned' = [scanned EXCEPT ![s] = 0]
          /\ pool' = [pool EXCEPT ![s] = settings.threads]
          /\ units' = [units EXCEPT ![s] =
                         [u \in 1..Len(targets[s]) |->
                            [st |-> "queued", skip_ping |-> FALSE, timeout10 |-> 0]]]
          /\ pc' = [pc EXCEPT ![s] = "loop"]
          /\ UNCHANGED <<is_scanning, targets>>
  /\ UNCHANGED <<devices_found, scan_result, settings,
                 devs, stopNotes, processed, observed, saves>>
  /\ UNCHANGED fnVars

\* A pool that starts one worker too many.
WorkerFree_OneMore(s) == Cardinality(Executing(s)) <= pool[s]

\* Whether the pool of scan s may put one more unit on a worker thread.
WorkerFree(s) == Cardinality(Executing(s)) < pool[s]

\* A pool worker takes the oldest queued unit (the executor's queue is first in, first
\* out) and begins _scan_single_target, which reads settings.skip_ping (line 333) and
\* settings.timeout (line 338) from the settings object it was handed.  The
\* executor runs queued units until its shutdown(wait=True) returns, that is also after
\* the loop was left by break.
WorkerStart(s, u) ==
  /\ pc[s] \in {"loop", "drain"}
  /\ u \in 1..Len(units[s])
  /\ units[s][u].st = "queued"
  /\ \A v \in 1..(u - 1) : units[s][v].st # "queued"
  /\ WorkerFree(s)
  /\ units' = [units EXCEPT ![s][u] = [st |-> "running", skip_ping |-> settings.skip_ping,
                                       timeout10 |-> settings.timeout10]]
  /\ UNCHANGED <<is_scanning, devices_found, scan_result, settings, pc, targets, pool,
                 scanned, devs, notes, last, stopNotes, processed, observed, saves>>
  /\ UNCHANGED fnVars

\* The unit's probes are over and its future completes.  What the future holds is seen
\* by future.result() alone, so it is drawn where line 391 reads it.
WorkerFinish(s, u) ==
  /\ pc[s] \in {"loop", "drain"}
  /\ u \in 1..Len(units[s])
  /\ units[s][u].st = "running"
  /\ units' = [units EXCEPT ![s][u].st = "done"]
  /\ UNCHANGED <<is_scanning, devices_found, scan_result, settings, pc, targets, pool,
                 scanned, devs, notes, last, stopNotes, processed, observed, saves>>
  /\ UNCHANGED fnVars

\* A future whose result the loop has taken; nothing of it is read again.
Consumed == [st |-> "consumed", skip_ping |-> FALSE, timeout10 |-> 0]

\* What future.result() of unit u of scan s may give: any outcome of the unit, or the one
\* the network is fixed to.
Answers(s, u) ==
  IF net = <<>> THEN UnitOutcomes(targets[s][u].port, units[s][u].skip_ping)
  ELSE {net[u]} \cap UnitOutcomes(targets[s][u].port, units[s][u].skip_ping)

\* as_completed yields unit u of scan s to the loop body.
Yielded(s, u) ==
  /\ pc[s] = "loop"
  /\ u \in 1..Len(units[s])
  /\ units[s][u].st = "done"

\* Lines 386-388: a completed future is yielded, the flag is found cleared, break.
ObserveStop(s, u) ==
  /\ Yielded(s, u)
  /\ ~is_scanning
  /\ observed' = [observed EXCEPT ![s] = TRUE]
  /\ pc' = [pc EXCEPT ![s] = "drain"]
  /\ UNCHANGED <<is_scanning, devices_found, scan_result, settings, targets, pool, units,
                 scanned, devs, notes, last, stopNotes, processed, saves>>
  /\ UNCHANGED fnVars

\* Lines 391 and 410-412: future.result() raises what the unit raised.
ProcessError(s, u) ==
  /\ Yielded(s, u)
  /\ is_scanning
  /\ Raised \in Answers(s, u)
  /\ scanned' = [scanned EXCEPT ![s] = @ + 1]
  /\ processed' = [processed EXCEPT ![s] = @ + 1]
  /\ units' = [units EXCEPT ![s][u] = Consumed]
  /\ UNCHANGED <<is_scanning, devices_found, scan_result, settings, pc, targets, pool,
                 devs, notes, last, stopNotes, observed, saves>>
  /\ UNCHANGED fnVars

\* Lines 391-392 and 403-412: the unit found nothing; every 10th completion is notified.
\* cb_raises: the notification callback raises, which the except clause of line 410 catches.
ProcessNone(s, u, cb_raises) ==
  /\ Yielded(s, u)
  /\ is_scanning
  /\ NoDevice \in Answers(s, u)
  /\ LET n == scanned[s] + 1
     IN IF n % 10 = 0
        THEN /\ Notify(s, Note("PROGRESS", <<n * 100, Len(targets[s])>>, None))
             /\ scanned' = [scanned EXCEPT ![s] = IF cb_raises THEN n + 1 ELSE n]
        ELSE /\ ~cb_raises
             /\ UNCHANGED <<notes, last>>
             /\ scanned' = [scanned EXCEPT ![s] = n]
  /\ processed' = [processed EXCEPT ![s] = @ + 1]
  /\ units' = [units EXCEPT ![s][u] = Consumed]
  /\ UNCHANGED <<is_scanning, devices_found, scan_result, settings, pc, targets, pool,
                 devs, stopNotes, observed, saves>>
  /\ UNCHANGED fnVars

\* Lines 391-402 and 410-412: the unit yielded a device.
ProcessFound(s, u, res, cb_raises) ==
  /\ Yielded(s, u)
  /\ is_scanning
  /\ res \in Answers(s, u)
  /\ res.kind = "device"
  /\ LET n   == scanned[s] + 1
         map == DictSet(devices_found, KeyOf(targets[s][u].ip, targets[s][u].port),
                        DeviceRecord(targets[s][u], res))
     IN /\ devices_found' = map
        /\ Notify(s, Note("FOUND", <<n * 100, Len(targets[s])>>, Len(map)))
        /\ scanned' = [scanned EXCEPT ![s] = IF cb_raises THEN n + 1 ELSE n]
  /\ processed' = [processed EXCEPT ![s] = @ + 1]
  /\ units' = [units EXCEPT ![s][u] = Consumed]
  /\ UNCHANGED <<is_scanning, scan_result, settings, pc, targets, pool,
                 devs, stopNotes, observed, saves>>
  /\ UNCHANGED fnVars

\* Lines 386 and 414-418: as_completed is exhausted; every unit is done, so the
\* executor's shutdown returns at once, and devices=list(self.devices_found.values())
\* is evaluated.
LoopEnd(s) ==
  /\ pc[s] = "loop"
  /\ \A u \in 1..Len(units[s]) : units[s][u].st = "consumed"
  /\ devs' = [devs EXCEPT ![s] = DictValues(devices_found)]
  /\ units' = [units EXCEPT ![s] = <<>>]
  /\ pc' = [pc EXCEPT ![s] = "store"]
  /\ UNCHANGED <<is_scanning, devices_found, scan_result, settings, targets, pool,
                 scanned, notes, last, stopNotes, processed, observed, saves>>
  /\ UNCHANGED fnVars

\* Lines 380 and 414-418, after break: leaving the with block is shutdown(wait=True),
\* which returns when every submitted unit has run; then
\* devices=list(self.devices_found.values()) is evaluated.
Shutdown(s) ==
  /\ pc[s] = "drain"
  /\ \A u \in 1..Len(units[s]) : units[s][u].st \in {"done", "consumed"}
  /\ devs' = [devs EXCEPT ![s] = DictValues(devices_found)]
  /\ units' = [units EXCEPT ![s] = <<>>]
  /\ pc' = [pc EXCEPT ![s] = "store"]
  /\ UNCHANGED <<is_scanning, devices_found, scan_result, settings, targets, pool,
                 scanned, notes, last, stopNotes, processed, observed, saves>>
  /\ UNCHANGED fnVars

\* Lines 417-423: the rest of the ScanResult (total_found=len(self.devices_found)) is
\* evaluated and the report is stored.
Store(s) ==
  /\ pc[s] = "store"
  /\ scan_result' = [devices |-> devs[s], total_scanned |-> scanned[s],
                     total_found |-> Len(devices_found)]
  /\ devs' = [devs EXCEPT ![s] = <<>>]
  /\ pool' = [pool EXCEPT ![s] = 0]
  /\ processed' = [processed EXCEPT ![s] = 0]
  /\ observed' = [observed EXCEPT ![s] = FALSE]
  /\ pc' = [pc EXCEPT ![s] = "complete"]
  /\ UNCHANGED <<is_scanning, devices_found, settings, targets, units, scanned, notes, last,
                 stopNotes, saves>>
  /\ UNCHANGED fnVars

\* Lines 425-437: the completion notification (followed by the error notification of the
\* except clause if the callback raises), then the finally clause.
Complete(s, cb_raises) ==
  /\ pc[s] = "complete"
  /\ IF cb_raises THEN NotifyThenError(s, Note("COMPLETE", <<100, 1>>, Len(devices_found)))
                  ELSE Notify(s, Note("COMPLETE", <<100, 1>>, Len(devices_found)))
  /\ is_scanning' = FALSE
  /\ targets' = [targets EXCEPT ![s] = <<>>]
  /\ scanned' = [scanned EXCEPT ![s] = 0]
  /\ pc' = [pc EXCEPT ![s] = "returned"]
  /\ UNCHANGED <<devices_found, scan_result, settings, pool, units,
                 devs, stopNotes, processed, observed, saves>>
  /\ UNCHANGED fnVars

Next ==
  \/ \E s \in Scans : StartScan(s)
  \/ StopScan
  \/ \E new \in SavedSettings : SaveSettings(new)
  \/ \E s \in Scans : ValidateFail(s)
  \/ \E s \in Scans : Begin(s)
  \/ \E s \in Scans, cb_raises \in BOOLEAN : GenerateEmpty(s, cb_raises)
  \/ \E s \in Scans : Generate(s)
  \/ \E s \in Scans, cb_raises \in BOOLEAN : Announce(s, cb_raises)
  \/ \E s \in Scans, u \in 1..MaxUnits : WorkerStart(s, u)
  \/ \E s \in Scans, u \in 1..MaxUnits : WorkerFinish(s, u)
  \/ \E s \in Scans, u \in 1..MaxUnits : ObserveStop(s, u)
  \/ \E s \in Scans, u \in 1..MaxUnits : ProcessError(s, u)
  \/ \E s \in Scans, u \in 1..MaxUnits, cb_raises \in BOOLEAN : ProcessNone(s, u, cb_raises)
  \/ \E s \in Scans, u \in 1..MaxUnits, t \in DeviceTypes, cb_raises \in BOOLEAN :
       ProcessFound(s, u, DeviceInfo(t), cb_raises)
  \/ \E s \in Scans : LoopEnd(s)
  \/ \E s \in Scans : Shutdown(s)
  \/ \E s \in Scans : Store(s)
  \/ \E s \in Scans, cb_raises \in BOOLEAN : Complete(s, cb_raises)

Spec == Init /\ [][Next]_vars

\* The steps of the thread that runs scan_async for scan s once its targets are generated
\* (lines 375-437), and the steps of its pool's workers.
ScanThread(s) ==
  \/ \E cb_raises \in BOOLEAN : Announce(s, cb_raises) \/ Complete(s, cb_raises)
  \/ \E u \in 1..MaxUnits : ObserveStop(s, u) \/ ProcessError(s, u)
  \/ \E u \in 1..MaxUnits, cb_raises \in BOOLEAN : ProcessNone(s, u, cb_raises)
  \/ \E u \in 1..MaxUnits, t \in DeviceTypes, cb_raises \in BOOLEAN :
       ProcessFound(s, u, DeviceInfo(t), cb_raises)
  \/ LoopEnd(s) \/ Shutdown(s) \/ Store(s)

PoolWorkers(s) == \E u \in 1..MaxUnits : WorkerStart(s, u) \/ WorkerFinish(s, u)

\* The scan thread and the pool's worker threads are scheduled by the operating system,
\* and every probe returns (each carries a timeout): a scan with targets keeps taking
\* steps, and so do its workers.
FairSpec ==
  Spec /\ \A s \in Scans : WF_vars(ScanThread(s)) /\ WF_vars(PoolWorkers(s))

(***************************************************************************)
(* generate_ip_range as a function of its arguments.                       *)
(***************************************************************************)
RangeAddrs ==
  { Ip(0, 0, 0, 0), Ip(0, 0, 0, 1), Ip(0, 0, 0, 255), Ip(0, 0, 1, 0), Ip(0, 0, 255, 255),
    Ip(0, 1, 0, 0), Ip(0, 255, 255, 255), Ip(1, 0, 0, 0), Ip(255, 255, 255, 254),
    Ip(255, 255, 255, 255),
    <<"2", "5", "6", ".", "1", ".", "1", ".", "1">>,
    <<"1", ".", "1", ".", "1">>,
    <<"a", ".", "0", ".", "0", ".", "1">>,
    <<" ", "0", ".", "0", ".", "0", ".", "1">>,
    <<"0", ".", "0", ".", "0", ".", "1", "\n">> }

\* b - a for two tuples taken as 32-bit numbers, computed on 16-bit halves so that no
\* intermediate value leaves TLC's 32-bit integers; differences beyond the neighbouring
\* upper half are reported as +/- 2^17.
TupleDiff(a, b) ==
  LET dh == (b[1] * 256 + b[2]) - (a[1] * 256 + a[2])
      dl == (b[3] * 256 + b[4]) - (a[3] * 256 + a[4])
  IN IF dh > 1 THEN 131072 ELSE IF dh < -1 THEN -131072 ELSE dh * 65536 + dl

\* The pairs whose range, if the function enumerates one, has at most MaxRange addresses.
RangeInputs ==
  { p \in RangeAddrs \X RangeAddrs :
      (validate_ip(p[1]) /\ validate_ip(p[2]))
        => TupleDiff(ip_to_tuple(p[1]), ip_to_tuple(p[2])) < MaxRange }

InitRange ==
  /\ is_scanning = FALSE
  /\ devices_found = <<>>
  /\ scan_result = [devices |-> <<>>, total_scanned |-> 0, total_found |-> 0]
  /\ settings = BaseSettings
  /\ pc = [s \in Scans |-> "idle"]
  /\ targets = [s \in Scans |-> <<>>]
  /\ pool = [s \in Scans |-> 0]
  /\ units = [s \in Scans |-> <<>>]
  /\ scanned = [s \in Scans |-> 0]
  /\ devs = [s \in Scans |-> <<>>]
  /\ notes = [s \in Scans |-> [k \in NoteKinds |-> 0]]
  /\ last = [scan |-> 0, note |-> Note("", <<>>, None)]
  /\ stopNotes = 0
  /\ processed = [s \in Scans |-> 0]
  /\ observed = [s \in Scans |-> FALSE]
  /\ saves = 0
  /\ net = <<>>
  /\ arg \in RangeInputs
  /\ ret = <<>>
  /\ phase = "call"

CallRange ==
  /\ phase = "call"
  /\ ret' = generate_ip_range(arg[1], arg[2])
  /\ phase' = "done"
  /\ UNCHANGED <<arg, net, engineVars>>

SpecRange == InitRange /\ [][CallRange]_vars

(***************************************************************************)
(* Properties.                                                             *)
(***************************************************************************)

\* The address syntax of the specification: exactly four dot-separated groups of one to
\* three decimal digits and nothing else, each group at most 255.
SpecValidAddress(ip) ==
  LET parts == Split(ip, ".")
  IN /\ Len(parts) = 4
     /\ \A i \in 1..4 :
          /\ Len(parts[i]) \in 1..3
          /\ \A j \in 1..Len(parts[i]) : IsDigit(parts[i][j])
          /\ DigitsValue(parts[i], 0) <= 255

SpecOctets(ip) == [i \in 1..4 |-> DigitsValue(Split(ip, ".")[i], 0)]

\* C10: on valid endpoints with start <= end generate_ip_range returns end - start + 1
\* addresses, the i-th being start + i - 1 (so strictly ascending from start to end, also
\* when end is 255.255.255.255); if start exceeds end, or either endpoint is invalid, it
\* returns the empty sequence.
C10_RangeContract ==
  phase = "done" =>
    LET start == arg[1]
        end == arg[2]
    IN IF /\ SpecValidAddress(start)
          /\ SpecValidAddress(end)
          /\ TupleDiff(SpecOctets(start), SpecOctets(end)) >= 0
       THEN /\ Len(ret) = TupleDiff(SpecOctets(start), SpecOctets(end)) + 1
            /\ \A i \in 1..Len(ret) :
                 /\ SpecValidAddress(ret[i])
                 /\ TupleDiff(SpecOctets(start), SpecOctets(ret[i])) = i - 1
       ELSE ret = <<>>

\* C10 on the endpoints the validator accepts: the same contract holds there.
C10_OnAcceptedEndpoints ==
  (phase = "done" /\ (SpecValidAddress(arg[1]) <=> validate_ip(arg[1]))
                  /\ (SpecValidAddress(arg[2]) <=> validate_ip(arg[2])))
    => C10_RangeContract

\* The scans that have reset the aggregation map and not yet returned.
RunningScans == {s \in Scans : pc[s] \in {"announce", "loop", "drain", "store", "complete"}}

\* C1: once the loop of a scan has observed the cleared flag, its scanned counter does not
\* change any more, and the total_scanned of the report it stores is the number of
\* completions the loop processed before the observation.
C1_StopFreezesScanned ==
  [][\A s \in Scans :
       /\ (observed[s] /\ observed'[s]) => scanned'[s] = scanned[s]
       /\ (observed[s] /\ pc[s] = "store" /\ pc'[s] = "complete")
            => scan_result'.total_scanned = processed[s]]_vars

\* C2: once the loop of a scan has observed the cleared flag, a unit of that scan that is
\* still queued is not started by a pool worker.
C2_NoStartAfterObservation ==
  [][\A s \in Scans :
       observed[s] =>
         \A u \in 1..Len(units[s]) :
           units[s][u].st = "queued" => units'[s][u].st = "queued"]_vars

\* C3: at most one scan invocation is between the reset of the aggregation map and its
\* return at any time.
C3_OneRunningScan == Cardinality(RunningScans) <= 1

\* C4: the stored report has at most one record per (address, port) and its total_found
\* is the number of records in its device list.
C4_ReportConsistent ==
  /\ \A i, j \in 1..Len(scan_result.devices) :
       (scan_result.devices[i].ip = scan_result.devices[j].ip
          /\ scan_result.devices[i].port = scan_result.devices[j].port) => i = j
  /\ scan_result.total_found = Len(scan_result.devices)

\* The validity rules of the settings, as the specification lists them.
SettingsInvalid(st) ==
  \/ ~SpecValidAddress(st.ip_start)
  \/ ~SpecValidAddress(st.ip_end)
  \/ st.port_start \notin 1..65535
  \/ st.port_end \notin 1..65535
  \/ st.port_start > st.port_end
  \/ st.threads \notin 1..200
  \/ st.timeout10 \notin 1..100

C6_ErrorsDoNotDistortCounts ==
  [][\A s \in Scans :
       (pc[s] = "store" /\ pc'[s] = "complete" /\ stopNotes = 0)
         => /\ scan_result'.total_scanned = Len(targets[s])
            /\ scan_result'.total_found = notes[s]["FOUND"]]_vars

\* C7: every scan that passed validation and generated a non-empty target list eventually
\* has returned with exactly one completion notification emitted, the flag being false.
C7_EventuallyComplete ==
  \A s \in Scans :
    (pc[s] = "announce") ~> (pc[s] = "returned" /\ notes[s]["COMPLETE"] = 1 /\ ~is_scanning)

\* C8: the units of a scan that pool workers execute at the same time never exceed
\* min(requested, 200), the pool being created with the requested thread count; a request
\* of zero or fewer threads is rejected by validation.
C8_ConcurrencyBound ==
  /\ [](\A s \in Scans :
          /\ Cardinality(Executing(s)) <= Min(pool[s], 200)
          /\ units[s] # <<>> => pool[s] >= 1)
  /\ [][\A s \in Scans :
          /\ (pc[s] = "announce" /\ pc'[s] = "loop") => pool'[s] = settings.threads
          /\ (pc[s] = "started" /\ pc'[s] # "started" /\ settings.threads <= 0)
               => (pc'[s] = "returned" /\ notes'[s]["ERROR"] = notes[s]["ERROR"] + 1)]_vars

\* C8 witness: a pool with every worker busy and a unit waiting in its queue.
C8_Witness ==
  \E s \in Scans :
    /\ pool[s] >= 1
    /\ Cardinality(Executing(s)) = pool[s]
    /\ \E u \in 1..Len(units[s]) : units[s][u].st = "queued"

\* C9: a scan request with more than 200 threads and otherwise valid settings is not
\* rejected: the thread count becomes 200 and the scan goes on to Running.
C9_ClampedNotRejected ==
  [][\A s \in Scans :
       (pc[s] = "started" /\ pc'[s] # "started" /\ settings.threads > 200
          /\ ~SettingsInvalid([settings EXCEPT !.threads = 200]))
         => (pc'[s] = "reset" /\ settings'.threads = 200 /\ is_scanning')]_vars

(***************************************************************************)
(* parse_ports as a function of its arguments.                             *)
(***************************************************************************)
MaxTokens == 2

PortTokens ==
  { <<"2", "2">>,
    <<"8", "0">>,
    <<" ", "8", "1", " ">>,
    <<"1", "0", "0", "-", "1", "0", "2">>,
    <<"5", "-", "3">>,
    <<"0">>,
    <<"7", "0", "0", "0", "0">>,
    <<"+", "9">>,
    <<"8", "_", "2">>,
    <<"x">>,
    <<>>,
    <<"7", "-">>,
    <<"1", "-", "2", "-", "3">> }

\* The custom port strings of up to MaxTokens tokens, and the one of the documentation.
RECURSIVE PortStrings(_)
PortStrings(n) ==
  IF n = 1 THEN PortTokens
  ELSE PortStrings(n - 1) \cup
       { a \o <<",">> \o b : a \in PortStrings(n - 1), b \in PortTokens }

PortInputs ==
  ((PortStrings(MaxTokens) \cup { <<"2", "2", ",", "8", "0", ",", "1", "0", "0", "-", "1", "0", "2">> })
     \X { <<5037, 5037>>, <<80, 82>>, <<82, 80>>, <<0, 5>>, <<65535, 65536>> })

InitPorts ==
  /\ is_scanning = FALSE
  /\ devices_found = <<>>
  /\ scan_result = [devices |-> <<>>, total_scanned |-> 0, total_found |-> 0]
  /\ settings = BaseSettings
  /\ pc = [s \in Scans |-> "idle"]
  /\ targets = [s \in Scans |-> <<>>]
  /\ pool = [s \in Scans |-> 0]
  /\ units = [s \in Scans |-> <<>>]
  /\ scanned = [s \in Scans |-> 0]
  /\ devs = [s \in Scans |-> <<>>]
  /\ notes = [s \in Scans |-> [k \in NoteKinds |-> 0]]
  /\ last = [scan |-> 0, note |-> Note("", <<>>, None)]
  /\ stopNotes = 0
  /\ processed = [s \in Scans |-> 0]
  /\ observed = [s \in Scans |-> FALSE]
  /\ saves = 0
  /\ net = <<>>
  /\ \E p \in PortInputs : arg = <<p[1], p[2][1], p[2][2]>>
  /\ ret = <<>>
  /\ phase = "call"

CallPorts ==
  /\ phase = "call"
  /\ ret' = parse_ports(arg[1], arg[2], arg[3])
  /\ phase' = "done"
  /\ UNCHANGED <<arg, net, engineVars>>

SpecPorts == InitPorts /\ [][CallPorts]_vars

\* A well-formed token of the custom port specification: a decimal number, or two decimal
\* numbers joined by a dash, surrounding blanks aside.
IsNumber(t) == t # <<>> /\ \A i \in 1..Len(t) : IsDigit(t[i])

DashAt(t) == {k \in 1..Len(t) : t[k] = "-"}

SpecWellFormedToken(tok) ==
  LET t == Strip(tok)
  IN \/ IsNumber(t)
     \/ \E k \in DashAt(t) : IsNumber(SubSeq(t, 1, k - 1)) /\ IsNumber(SubSeq(t, k + 1, Len(t)))

\* The ports a well-formed token names.
SpecTokenPorts(tok) ==
  LET t == Strip(tok)
  IN IF IsNumber(t)
     THEN {DigitsValue(t, 0)} \cap (1..65535)
     ELSE LET k  == CHOOSE k \in DashAt(t) : TRUE
              lo == DigitsValue(SubSeq(t, 1, k - 1), 0)
              hi == DigitsValue(SubSeq(t, k + 1, Len(t)), 0)
          IN IF lo \in 1..65535 /\ hi \in 1..65535 /\ lo <= hi THEN lo..hi ELSE {}

SpecRangePorts(lo, hi) == IF lo \in 1..65535 /\ hi \in 1..65535 THEN lo..hi ELSE {}

SeqToSet(q) == {q[i] : i \in 1..Len(q)}

DocPortString == <<"2", "2", ",", "8", "0", ",", "1", "0", "0", "-", "1", "0", "2">>

\* C11: for a custom specification of well-formed tokens and any port range, parse_ports
\* returns the strictly ascending list of exactly the ports of the range (when both bounds
\* are valid ports) and of the tokens; parse_ports("22,80,100-102", 5037, 5037) is
\* [22, 80, 100, 101, 102, 5037].
C11_ParsePortsUnion ==
  phase = "done" =>
    LET toks == Split(arg[1], ",")
    IN /\ (\A i \in 1..Len(toks) : SpecWellFormedToken(toks[i]))
            => /\ \A i \in 1..(Len(ret) - 1) : ret[i] < ret[i + 1]
               /\ SeqToSet(ret) = SpecRangePorts(arg[2], arg[3])
                                    \cup UNION {SpecTokenPorts(toks[i]) : i \in 1..Len(toks)}
       /\ arg = <<DocPortString, 5037, 5037>> => ret = <<22, 80, 100, 101, 102, 5037>>

\* C11 witness: the documented call has returned its six ports.
C11_Witness ==
  phase = "done" /\ arg = <<DocPortString, 5037, 5037>> /\ Len(ret) = 6

\* C12: whatever malformed tokens the custom specification holds, the result contains the
\* ports of each of its well-formed tokens, before or after the malformed ones, and the
\* port range.
C12_MalformedTokenSkipped ==
  phase = "done" =>
    LET toks == Split(arg[1], ",")
    IN /\ SpecRangePorts(arg[2], arg[3]) \subseteq SeqToSet(ret)
       /\ \A i \in 1..Len(toks) :
            SpecWellFormedToken(toks[i]) => SpecTokenPorts(toks[i]) \subseteq SeqToSet(ret)

(***************************************************************************)
(* validate_ip as a function of its argument.                              *)
(***************************************************************************)
IpBodies ==
  { <<"0", ".", "0", ".", "0", ".", "0">>,
    <<"2", "5", "5", ".", "2", "5", "5", ".", "2", "5", "5", ".", "2", "5", "5">>,
    <<"2", "5", "6", ".", "1", ".", "1", ".", "1">>,
    <<"1", ".", "1", ".", "1">>,
    <<"a", "b", "c", ".", "d", "e", "f", ".", "1", ".", "1">>,
    <<"1", ".", "1", ".", "1", ".", "1">>,
    <<"0", "1", ".", "1", ".", "1", ".", "1">>,
    <<"1", ".", "1", ".", "1", ".", "1", ".", "1">>,
    <<"1", ".", ".", "1", ".", "1">>,
    <<"9", "9", "9", ".", "1", ".", "1", ".", "1">>,
    <<"1", ".", "1", ".", "1", ".">>,
    <<"1", "2", "3", "4", ".", "1", ".", "1", ".", "1">>,
    <<"1", ".", "1", ".", "1", ".", "a">>,
    <<"+", "1", ".", "1", ".", "1", ".", "1">>,
    <<"1", "_", "1", ".", "1", ".", "1", ".", "1">>,
    <<>> }

\* Each body as it is, and with blanks or newlines before or after it.
IpInputs ==
  { pre \o body \o post :
      pre \in { <<>>, <<" ">> }, body \in IpBodies,
      post \in { <<>>, <<"\n">>, <<" ">>, <<"\n", "\n">> } }

InitIp ==
  /\ is_scanning = FALSE
  /\ devices_found = <<>>
  /\ scan_result = [devices |-> <<>>, total_scanned |-> 0, total_found |-> 0]
  /\ settings = BaseSettings
  /\ pc = [s \in Scans |-> "idle"]
  /\ targets = [s \in Scans |-> <<>>]
  /\ pool = [s \in Scans |-> 0]
  /\ units = [s \in Scans |-> <<>>]
  /\ scanned = [s \in Scans |-> 0]
  /\ devs = [s \in Scans |-> <<>>]
  /\ notes = [s \in Scans |-> [k \in NoteKinds |-> 0]]
  /\ last = [scan |-> 0, note |-> Note("", <<>>, None)]
  /\ stopNotes = 0
  /\ processed = [s \in Scans |-> 0]
  /\ observed = [s \in Scans |-> FALSE]
  /\ saves = 0
  /\ net = <<>>
  /\ arg \in IpInputs
  /\ ret = <<>>
  /\ phase = "call"

CallIp ==
  /\ phase = "call"
  /\ ret' = validate_ip(arg)
  /\ phase' = "done"
  /\ UNCHANGED <<arg, net, engineVars>>

SpecIp == InitIp /\ [][CallIp]_vars

\* C13: validate_ip accepts a string exactly if it is four dot-separated decimal octets,
\* each in 0..255, and nothing else: no blank or newline before or after.
C13_ValidateIpExact == phase = "done" => (ret <=> SpecValidAddress(arg))

\* C14: a scan thread that finds valid settings with a start address above the end
\* address returns with exactly one notification, an error: no start or completion
\* notification, no pool, no unit, the last report unchanged and the flag false.
C14_EmptyTargetSpace ==
  [][\A s \in Scans :
       (/\ pc[s] = "reset" /\ pc'[s] # "reset"
        /\ ~SettingsInvalid(settings)
        /\ TupleDiff(SpecOctets(settings.ip_start), SpecOctets(settings.ip_end)) < 0)
         => /\ pc'[s] = "returned"
            /\ notes'[s] = [notes[s] EXCEPT !["ERROR"] = @ + 1]
            /\ units' = units /\ pool' = pool
            /\ scan_result' = scan_result
            /\ ~is_scanning']_vars

\* No scan thread exists or all have returned.
EngineIdle == \A s \in Scans : pc[s] \in {"idle", "returned"}

\* C17: while the engine is idle no step emits a stop notification or changes the flag,
\* the map or the last report, so a stop signal is a no-op there.
C17_StopWhileIdleIsNoOp ==
  [][(EngineIdle /\ ~is_scanning)
       => /\ stopNotes' = stopNotes
          /\ is_scanning' = is_scanning
          /\ devices_found' = devices_found
          /\ scan_result' = scan_result]_vars

\* C20: while a scan aggregates, its scanned counter is the number of completions its loop
\* has processed and at most the number of targets, and no notification carries a progress
\* above 100 per cent.
C20_ScannedCountsCompletions ==
  /\ \A s \in Scans :
       pc[s] \in {"loop", "drain", "store"}
         => (scanned[s] = processed[s] /\ scanned[s] <= Len(targets[s]))
  /\ last.note.progress # <<>>
       => (0 <= last.note.progress[1] /\ last.note.progress[1] <= 100 * last.note.progress[2])

(***************************************************************************)
(* _scan_single_target as a function of its target, its settings and the   *)
(* answers of the network.                                                 *)
(***************************************************************************)
UnitInputs ==
  [port : {5037, 5555, 22, 23, 80}, skip_ping : BOOLEAN, ping_ok : BOOLEAN,
   port_ok : BOOLEAN, adb_ok : BOOLEAN, c1 : BOOLEAN, c2 : BOOLEAN]

InitUnit ==
  /\ is_scanning = FALSE
  /\ devices_found = <<>>
  /\ scan_result = [devices |-> <<>>, total_scanned |-> 0, total_found |-> 0]
  /\ settings = BaseSettings
  /\ pc = [s \in Scans |-> "idle"]
  /\ targets = [s \in Scans |-> <<>>]
  /\ pool = [s \in Scans |-> 0]
  /\ units = [s \in Scans |-> <<>>]
  /\ scanned = [s \in Scans |-> 0]
  /\ devs = [s \in Scans |-> <<>>]
  /\ notes = [s \in Scans |-> [k \in NoteKinds |-> 0]]
  /\ last = [scan |-> 0, note |-> Note("", <<>>, None)]
  /\ stopNotes = 0
  /\ processed = [s \in Scans |-> 0]
  /\ observed = [s \in Scans |-> FALSE]
  /\ saves = 0
  /\ net = <<>>
  /\ arg \in UnitInputs
  /\ ret = <<>>
  /\ phase = "call"

CallUnit ==
  /\ phase = "call"
  /\ ret' = [result |-> scan_single_target(arg.port, arg.skip_ping, arg.ping_ok, arg.port_ok,
                                           arg.adb_ok, arg.c1, arg.c2),
             probes |-> scan_single_target_probes(arg.skip_ping, arg.ping_ok, arg.port_ok)]
  /\ phase' = "done"
  /\ UNCHANGED <<arg, net, engineVars>>

SpecUnit == InitUnit /\ [][CallUnit]_vars

Ran(probe) == \E i \in 1..Len(ret.probes) : ret.probes[i] = probe

\* C19: a unit runs its probes in the order reachability, connect, identification, each
\* at most once and each later one only after a positive earlier one: the reachability
\* probe runs exactly if skip_ping is false, the connect probe exactly if reachability was
\* skipped or positive, the identification exactly if the connect probe was positive; a
\* device record is returned only after a positive connect probe.
C19_ProbeOrder ==
  phase = "done" =>
    /\ \E k \in 0..3 : ret.probes = SubSeq(<<"ping", "connect", "identify">>, 1, k)
                   \/ ret.probes = SubSeq(<<"connect", "identify">>, 1, k)
    /\ Ran("ping") <=> ~arg.skip_ping
    /\ Ran("connect") <=> (arg.skip_ping \/ arg.ping_ok)
    /\ Ran("identify") <=> (Ran("connect") /\ arg.port_ok)
    /\ ret.result.kind = "device" => (Ran("connect") /\ arg.port_ok)

\* C19 witness: a unit with skip_ping false ran all three probes and returned a device.
C19_Witness ==
  /\ phase = "done"
  /\ ~arg.skip_ping
  /\ ret.probes = <<"ping", "connect", "identify">>
  /\ ret.result.kind = "device"

\* The units of scan s that a worker has begun and whose result the loop has not taken.
Begun(s) == {u \in 1..Len(units[s]) : units[s][u].st \in {"running", "done"}}

\* C18: the units of one scan all work with the same skip_ping and timeout (the values
\* validated when the scan started), whatever is saved meanwhile.
C18_SettingsFixedDuringScan ==
  \A s \in Scans : \A u, v \in Begun(s) :
    /\ units[s][u].skip_ping = units[s][v].skip_ping
    /\ units[s][u].timeout10 = units[s][v].timeout10

(***************************************************************************)
(* Runs of the same scan, one after the other, against a network whose     *)
(* answers are fixed: no stop request, no save of the settings.            *)
(***************************************************************************)
\* ScanSettings, lines 69-97: the defaults of the fields the engine reads.
DefaultSettings ==
  [ip_start |-> Ip(192, 168, 1, 1), ip_end |-> Ip(192, 168, 1, 255),
   port_start |-> 5037, port_end |-> 5037,
   custom_ports |-> <<"5", "0", "3", "7", ",", "5", "5", "5", "5", ",", "2", "2", ",", "2", "3">>,
   timeout10 |-> 10, threads |-> 50, skip_ping |-> FALSE]

\* ScanSettings(ip_start="127.0.0.1", ip_end="127.0.0.1", custom_ports="9,10",
\* skip_ping=True)
E2ESettings ==
  [DefaultSettings EXCEPT !.ip_start = Ip(127, 0, 0, 1), !.ip_end = Ip(127, 0, 0, 1),
                          !.custom_ports = <<"9", ",", "1", "0">>, !.skip_ping = TRUE]

\* The scans that are run twice: two targets on a pool of two workers, and the scan of
\* the loopback address.
RunSettings == {[BaseSettings EXCEPT !.threads = 2, !.custom_ports = <<"2", "2">>], E2ESettings}

\* The answers a network may be fixed to for the targets of settings st.
FixedNets(st) ==
  LET tg == GeneratedTargets(st)
  IN { f \in [1..Len(tg) -> UNION {UnitOutcomes(tg[u].port, st.skip_ping) : u \in 1..Len(tg)}] :
         \A u \in 1..Len(tg) : f[u] \in UnitOutcomes(tg[u].port, st.skip_ping) }

InitRuns ==
  /\ is_scanning = FALSE
  /\ devices_found = <<>>
  /\ scan_result = [devices |-> <<>>, total_scanned |-> 0, total_found |-> 0]
  /\ settings \in RunSettings
  /\ pc = [s \in Scans |-> "idle"]
  /\ targets = [s \in Scans |-> <<>>]
  /\ pool = [s \in Scans |-> 0]
  /\ units = [s \in Scans |-> <<>>]
  /\ scanned = [s \in Scans |-> 0]
  /\ devs = [s \in Scans |-> <<>>]
  /\ notes = [s \in Scans |-> [k \in NoteKinds |-> 0]]
  /\ last = [scan |-> 0, note |-> Note("", <<>>, None)]
  /\ stopNotes = 0
  /\ processed = [s \in Scans |-> 0]
  /\ observed = [s \in Scans |-> FALSE]
  /\ saves = 0
  /\ net \in FixedNets(settings)
  /\ arg = <<>>
  /\ ret = <<>>
  /\ phase = "unused"

\* start_scan (lines 690-708), requested when no scan thread is alive.
StartRun(s) ==
  /\ \A t \in Scans : pc[t] \in {"idle", "returned"}
  /\ StartScan(s)

NextRuns ==
  \/ \E s \in Scans : StartRun(s)
  \/ \E s \in Scans : Begin(s)
  \/ \E s \in Scans : Generate(s)
  \/ \E s \in Scans, cb_raises \in BOOLEAN : Announce(s, cb_raises)
  \/ \E s \in Scans, u \in 1..MaxUnits : WorkerStart(s, u)
  \/ \E s \in Scans, u \in 1..MaxUnits : WorkerFinish(s, u)
  \/ \E s \in Scans, u \in 1..MaxUnits : ProcessError(s, u)
  \/ \E s \in Scans, u \in 1..MaxUnits, cb_raises \in BOOLEAN : ProcessNone(s, u, cb_raises)
  \/ \E s \in Scans, u \in 1..MaxUnits, t \in DeviceTypes, cb_raises \in BOOLEAN :
       ProcessFound(s, u, DeviceInfo(t), cb_raises)
  \/ \E s \in Scans : LoopEnd(s)
  \/ \E s \in Scans : Store(s)
  \/ \E s \in Scans, cb_raises \in BOOLEAN : Complete(s, cb_raises)

SpecRuns == InitRuns /\ [][NextRuns]_vars

\* The targets the fixed network answers with a device.
Detected == {u \in 1..Len(net) : net[u].kind = "device"}

\* The (address, port) keys of the devices of report r.
ReportKeys(r) == {KeyOf(r.devices[i].ip, r.devices[i].port) : i \in 1..Len(r.devices)}

\* Scan s stores its report in this step.
Stores(s) == pc[s] = "store" /\ pc'[s] = "complete"

\* C15: two runs of the same scan (skip_ping true, no stop) against the same fixed probe
\* outcomes give reports with the same total_found and the same set of (address, port)
\* keys, whatever the order in which the workers complete: every report counts exactly
\* the targets that answer with a device and holds exactly their keys, and the report of
\* the second run agrees with the report the first run stored.
C15_RunsAgree ==
  [][\A s \in Scans :
       Stores(s) =>
         /\ scan_result'.total_found = Cardinality(Detected)
         /\ ReportKeys(scan_result') =
              {KeyOf(targets[s][u].ip, targets[s][u].port) : u \in Detected}
         /\ (s = 2 /\ notes[1]["COMPLETE"] = 1) =>
              /\ scan_result'.total_found = scan_result.total_found
              /\ ReportKeys(scan_result') = ReportKeys(scan_result)]_vars

\* Both runs stored a report of two devices, the second run's workers having completed
\* in the reverse of the order of submission.
C15_Witness ==
  /\ pc[2] = "complete"
  /\ notes[1]["COMPLETE"] = 1
  /\ scan_result.total_found = 2
  /\ Len(scan_result.devices) = 2
  /\ scan_result.devices[1].port = GeneratedTargets(settings)[2].port

\* The loopback scenario: the scan of 127.0.0.1 with custom_ports "9,10", skip_ping true
\* and the other settings at their defaults, every scanned port closed.
LoopbackScenario == settings = E2ESettings /\ \A u \in 1..Len(net) : net[u] = NoDevice

\* C16, as stated: the loopback scenario reports total_found = 0 and total_scanned = 2.
C16_LoopbackScannedTwo ==
  [][\A s \in Scans :
       (Stores(s) /\ LoopbackScenario)
         => (scan_result'.total_found = 0 /\ scan_result'.total_scanned = 2)]_vars

\* C16, amended: parse_ports adds the default range 5037..5037 to the ports 9 and 10, so
\* the loopback scenario has three targets and reports total_found = 0 and
\* total_scanned = 3.
C16_LoopbackScannedThree ==
  [][\A s \in Scans :
       (Stores(s) /\ LoopbackScenario)
         => /\ [u \in 1..Len(targets[s]) |-> targets[s][u].port] = <<9, 10, 5037>>
            /\ scan_result'.total_found = 0
            /\ scan_result'.total_scanned = 3]_vars

\* A run of the loopback scenario has stored its report.
C16_Witness ==
  /\ LoopbackScenario
  /\ \E s \in Scans : pc[s] = "complete"
  /\ scan_result = [devices |-> <<>>, total_scanned |-> 3, total_found |-> 0]

\* Scan s emits a notification in this step.
Emits(s) == notes'[s] # notes[s]

\* The value of the local counter scanned when the notification of this step is emitted:
\* the aggregation loop has counted the completion it is processing (line 392).
ScannedAtEmission(s) == IF pc[s] = "loop" THEN scanned[s] + 1 ELSE scanned[s]

\* C21: every notification that carries a progress value carries
\* scanned / total_targets * 100 for the scanned counter at the moment it is emitted; the
\* completion notification of a scan stopped before all its units were processed does
\* not carry 100.
C21_ProgressIsScannedShare ==
  [][\A s \in Scans :
       (Emits(s) /\ last'.scan = s /\ last'.note.progress # <<>>)
         => last'.note.progress[1] * Len(targets[s])
              = ScannedAtEmission(s) * 100 * last'.note.progress[2]]_vars

(***************************************************************************)
(* Scans of three targets that may overlap: start_scan tests is_scanning   *)
(* before scan_async sets it, so a second request made in between starts a *)
(* second scan thread.  No stop request, no save of the settings.          *)
(***************************************************************************)
\* 10.0.0.1 with ports 80, 81 and 82 on a pool of one worker.
ThreeTargetSettings == [BaseSettings EXCEPT !.port_end = 82]

\* The fixed answers of the three targets: a device behind every port, or a device, a
\* closed port and a unit that raises.
OverlapNets ==
  { <<DeviceInfo("Unknown"), DeviceInfo("Unknown"), DeviceInfo("Unknown")>>,
    <<DeviceInfo("Unknown"), NoDevice, Raised>> }

InitOverlap ==
  /\ is_scanning = FALSE
  /\ devices_found = <<>>
  /\ scan_result = [devices |-> <<>>, total_scanned |-> 0, total_found |-> 0]
  /\ settings = ThreeTargetSettings
  /\ pc = [s \in Scans |-> "idle"]
  /\ targets = [s \in Scans |-> <<>>]
  /\ pool = [s \in Scans |-> 0]
  /\ units = [s \in Scans |-> <<>>]
  /\ scanned = [s \in Scans |-> 0]
  /\ devs = [s \in Scans |-> <<>>]
  /\ notes = [s \in Scans |-> [k \in NoteKinds |-> 0]]
  /\ last = [scan |-> 0, note |-> Note("", <<>>, None)]
  /\ stopNotes = 0
  /\ processed = [s \in Scans |-> 0]
  /\ observed = [s \in Scans |-> FALSE]
  /\ saves = 0
  /\ net \in OverlapNets
  /\ arg = <<>>
  /\ ret = <<>>
  /\ phase = "unused"

NextOverlap ==
  \/ \E s \in Scans : StartScan(s)
  \/ \E s \in Scans : Begin(s)
  \/ \E s \in Scans : Generate(s)
  \/ \E s \in Scans, cb_raises \in BOOLEAN : Announce(s, cb_raises)
  \/ \E s \in Scans, u \in 1..MaxUnits : WorkerStart(s, u)
  \/ \E s \in Scans, u \in 1..MaxUnits : WorkerFinish(s, u)
  \/ \E s \in Scans, u \in 1..MaxUnits : ProcessError(s, u)
  \/ \E s \in Scans, u \in 1..MaxUnits, cb_raises \in BOOLEAN : ProcessNone(s, u, cb_raises)
  \/ \E s \in Scans, u \in 1..MaxUnits, t \in DeviceTypes, cb_raises \in BOOLEAN :
       ProcessFound(s, u, DeviceInfo(t), cb_raises)
  \/ \E s \in Scans : LoopEnd(s)
  \/ \E s \in Scans : Store(s)
  \/ \E s \in Scans, cb_raises \in BOOLEAN : Complete(s, cb_raises)

SpecOverlap == InitOverlap /\ [][NextOverlap]_vars

\* The aggregation loop of scan s takes the result of unit u in this step.
Consumes(s, u) ==
  /\ u \in 1..Len(units[s])
  /\ units[s][u].st = "done"
  /\ units'[s][u].st = "consumed"

\* The keys of the aggregation map d.
MapKeys(d) == {d[i].key : i \in 1..Len(d)}

\* A unit that yielded a DeviceRecord is followed, in the step that processes it, by a
\* found notification whose device count is the size of the map the record is then in.
FoundNotified(s, u) ==
  net[u].kind = "device" =>
    /\ Emits(s)
    /\ last'.scan = s
    /\ last'.note.kind = "FOUND"
    /\ KeyOf(targets[s][u].ip, targets[s][u].port) \in MapKeys(devices_found')
    /\ last'.note.devices = Len(devices_found')

\* A unit that yielded none is notified only when the counter is a multiple of 10.
ProgressThrottled(s, u) ==
  (net[u] = NoDevice /\ Emits(s)) =>
    /\ last'.scan = s
    /\ last'.note.kind = "PROGRESS"
    /\ ScannedAtEmission(s) % 10 = 0

\* A found notification of scan s that follows a found notification of scan s does not
\* carry a smaller device count.
FoundCountsGrow(s) ==
  (Emits(s) /\ last'.scan = s /\ last'.note.kind = "FOUND"
     /\ last.scan = s /\ last.note.kind = "FOUND")
    => last'.note.devices >= last.note.devices

\* C22: every completion the aggregation loop processes is notified as found, in the
\* same step and with the size of the aggregation map, if the unit yielded a
\* DeviceRecord, and is notified as progress only at multiples of 10 if it yielded none;
\* the device counts of the found notifications of one scan never decrease.
C22_LoopNotifications ==
  [][\A s \in Scans :
       /\ \A u \in 1..MaxUnits :
            Consumes(s, u) => (FoundNotified(s, u) /\ ProgressThrottled(s, u))
       /\ FoundCountsGrow(s)]_vars

\* The classifications the documented rule allows a record on a port.
SpecClassifications(port) ==
  IF port = 22 THEN {"SSH"}
  ELSE IF port = 23 THEN {"Telnet"}
  ELSE IF port \in {5037, 5555} THEN {"ADB", "Unknown"}
  ELSE {"Unknown"}

\* C23: every DeviceRecord a unit returns has status "online" and a classification
\* fixed by its port (22 secure-shell, 23 legacy-terminal, 5037 and 5555 remote-debug or
\* unclassified, any other port unclassified), whatever the connect probes made inside
\* the identification probe answer.
C23_ClassificationByPort ==
  (phase = "done" /\ ret.result.kind = "device") =>
    /\ ret.result.status = "online"
    /\ ret.result.device_type \in SpecClassifications(arg.port)

(***************************************************************************)
(* Scans of target spaces of several shapes, one after the other, every    *)
(* port closed.                                                            *)
(***************************************************************************)
\* addresses x ports: 2 x 2, 1 x 3, 3 x 1, 4 x 1, 2 x 1, and an empty address range.
ShapeSettings ==
  { [BaseSettings EXCEPT !.threads = 2, !.ip_end = Ip(10, 0, 0, 2)],
    [BaseSettings EXCEPT !.threads = 2, !.custom_ports = <<"8", "1", ",", "9", "0">>],
    [BaseSettings EXCEPT !.threads = 2, !.ip_end = Ip(10, 0, 0, 3), !.custom_ports = <<"8", "0">>],
    [BaseSettings EXCEPT !.threads = 2, !.ip_start = Ip(10, 0, 0, 254), !.ip_end = Ip(10, 0, 1, 1),
                         !.custom_ports = <<>>],
    [BaseSettings EXCEPT !.threads = 2, !.ip_end = Ip(10, 0, 0, 2), !.custom_ports = <<"x">>],
    [BaseSettings EXCEPT !.threads = 2, !.ip_start = Ip(10, 0, 0, 2)] }

InitShapes ==
  /\ is_scanning = FALSE
  /\ devices_found = <<>>
  /\ scan_result = [devices |-> <<>>, total_scanned |-> 0, total_found |-> 0]
  /\ settings \in ShapeSettings
  /\ pc = [s \in Scans |-> "idle"]
  /\ targets = [s \in Scans |-> <<>>]
  /\ pool = [s \in Scans |-> 0]
  /\ units = [s \in Scans |-> <<>>]
  /\ scanned = [s \in Scans |-> 0]
  /\ devs = [s \in Scans |-> <<>>]
  /\ notes = [s \in Scans |-> [k \in NoteKinds |-> 0]]
  /\ last = [scan |-> 0, note |-> Note("", <<>>, None)]
  /\ stopNotes = 0
  /\ processed = [s \in Scans |-> 0]
  /\ observed = [s \in Scans |-> FALSE]
  /\ saves = 0
  /\ net = [u \in 1..MaxUnits |-> NoDevice]
  /\ arg = <<>>
  /\ ret = <<>>
  /\ phase = "unused"

NextShapes ==
  \/ \E s \in Scans : StartRun(s)
  \/ \E s \in Scans : Begin(s)
  \/ \E s \in Scans, cb_raises \in BOOLEAN : GenerateEmpty(s, cb_raises)
  \/ \E s \in Scans : Generate(s)
  \/ \E s \in Scans, cb_raises \in BOOLEAN : Announce(s, cb_raises)
  \/ \E s \in Scans, u \in 1..MaxUnits : WorkerStart(s, u)
  \/ \E s \in Scans, u \in 1..MaxUnits : WorkerFinish(s, u)
  \/ \E s \in Scans, u \in 1..MaxUnits, cb_raises \in BOOLEAN : ProcessNone(s, u, cb_raises)
  \/ \E s \in Scans : LoopEnd(s)
  \/ \E s \in Scans : Store(s)
  \/ \E s \in Scans, cb_raises \in BOOLEAN : Complete(s, cb_raises)

SpecShapes == InitShapes /\ [][NextShapes]_vars

\* Scan s submits its units in this step (lines 380-384).
Dispatches(s) == pc[s] = "announce" /\ pc'[s] = "loop"

\* The (address, port) pairs of the units of scan s after this step.
DispatchedPairs(s) == {targets[s][u] : u \in 1..Len(units'[s])}

\* C24: the units a scan dispatches are exactly the cartesian product of the expanded
\* address sequence and the resolved port set: every pair of the product is dispatched,
\* none outside it, none twice, and total_targets = |addresses| * |ports|; a unit is put
\* on a worker only from the queue, hence once.
C24_DispatchIsProduct ==
  [][\A s \in Scans :
       /\ Dispatches(s) =>
            LET ips   == generate_ip_range(settings.ip_start, settings.ip_end)
                ports == parse_ports(settings.custom_ports, settings.port_start,
                                     settings.port_end)
            IN /\ DispatchedPairs(s)
                    = {[ip |-> i, port |-> p] : i \in SeqToSet(ips), p \in SeqToSet(ports)}
               /\ Len(units'[s]) = Len(targets[s])
               /\ \A u, v \in 1..Len(units'[s]) : targets[s][u] = targets[s][v] => u = v
               /\ Len(targets[s]) = Len(ips) * Len(ports)
               /\ \A u \in 1..Len(units'[s]) : units'[s][u].st = "queued"
       /\ \A u \in 1..MaxUnits :
            (u \in 1..Len(units[s]) /\ u \in 1..Len(units'[s])
               /\ units[s][u].st # "running" /\ units'[s][u].st = "running")
              => units[s][u].st = "queued"]_vars

\* A scan of two addresses and two ports has dispatched its four units and the pool has
\* started on them.
C24_Witness ==
  \E s \in Scans :
    /\ pc[s] = "loop"
    /\ Len(units[s]) = 4
    /\ Cardinality({targets[s][u].ip : u \in 1..4}) = 2
    /\ Cardinality({targets[s][u].port : u \in 1..4}) = 2
    /\ units[s][1].st = "done"

\* The keys of the target space of scan s.
TargetKeys(s) == {KeyOf(targets[s][u].ip, targets[s][u].port) : u \in 1..Len(targets[s])}

\* C25: the report a scan stores holds only records discovered by that scan's own units:
\* the key of every record is in the scan's target space, and the report has no more
\* records, and no larger total_found, than the scan has made discoveries (each is
\* notified as found once), also when another scan of the engine is started while the
\* first is draining its units after a stop.
C25_ReportHoldsOwnRecords ==
  [][\A s \in Scans :
       Stores(s) =>
         /\ ReportKeys(scan_result') \subseteq TargetKeys(s)
         /\ Len(scan_result'.devices) <= notes[s]["FOUND"]
         /\ scan_result'.total_found <= notes[s]["FOUND"]]_vars

(***************************************************************************)
(* A scan, stop requests while it is alive, and further scans that are     *)
(* requested only after the last stop request: no stop request is made     *)
(* once a later scan is started.                                           *)
(***************************************************************************)
\* stop_scan (lines 439-442), requested while scan 1 is alive and no later scan is started.
StopFirstScan ==
  /\ pc[1] \notin {"idle", "returned"}
  /\ \A t \in Scans : t > 1 => pc[t] = "idle"
  /\ StopScan

\* start_scan (lines 690-708); a scan after the first is requested after the stop requests.
StartAfterStop(s) ==
  /\ s > 1 => stopNotes = MaxStops
  /\ StartScan(s)

InitRestart ==
  /\ is_scanning = FALSE
  /\ devices_found = <<>>
  /\ scan_result = [devices |-> <<>>, total_scanned |-> 0, total_found |-> 0]
  /\ settings = BaseSettings
  /\ pc = [s \in Scans |-> "idle"]
  /\ targets = [s \in Scans |-> <<>>]
  /\ pool = [s \in Scans |-> 0]
  /\ units = [s \in Scans |-> <<>>]
  /\ scanned = [s \in Scans |-> 0]
  /\ devs = [s \in Scans |-> <<>>]
  /\ notes = [s \in Scans |-> [k \in NoteKinds |-> 0]]
  /\ last = [scan |-> 0, note |-> Note("", <<>>, None)]
  /\ stopNotes = 0
  /\ processed = [s \in Scans |-> 0]
  /\ observed = [s \in Scans |-> FALSE]
  /\ saves = 0
  /\ net = <<>>
  /\ arg = <<>>
  /\ ret = <<>>
  /\ phase = "unused"

NextRestart ==
  \/ \E s \in Scans : StartAfterStop(s)
  \/ StopFirstScan
  \/ \E s \in Scans : Begin(s)
  \/ \E s \in Scans : Generate(s)
  \/ \E s \in Scans, cb_raises \in BOOLEAN : Announce(s, cb_raises)
  \/ \E s \in Scans, u \in 1..MaxUnits : WorkerStart(s, u)
  \/ \E s \in Scans, u \in 1..MaxUnits : WorkerFinish(s, u)
  \/ \E s \in Scans, u \in 1..MaxUnits : ObserveStop(s, u)
  \/ \E s \in Scans, u \in 1..MaxUnits : ProcessError(s, u)
  \/ \E s \in Scans, u \in 1..MaxUnits, cb_raises \in BOOLEAN : ProcessNone(s, u, cb_raises)
  \/ \E s \in Scans, u \in 1..MaxUnits, t \in DeviceTypes, cb_raises \in BOOLEAN :
       ProcessFound(s, u, DeviceInfo(t), cb_raises)
  \/ \E s \in Scans : LoopEnd(s)
  \/ \E s \in Scans : Shutdown(s)
  \/ \E s \in Scans : Store(s)
  \/ \E s \in Scans, cb_raises \in BOOLEAN : Complete(s, cb_raises)

SpecRestart == InitRestart /\ [][NextRestart]_vars

\* C26: a stop request cancels only the scan that was running when it was made: a scan
\* started after the stop request, and receiving none of its own, processes every one of
\* its units, so the report it stores has total_scanned = total_targets, also when the
\* stopped scan returns and clears is_scanning while the later scan is running.
C26_StopCancelsOneScan ==
  [][\A s \in Scans :
       (s > 1 /\ Stores(s)) => scan_result'.total_scanned >= Len(targets[s])]_vars

(***************************************************************************)
(* export_csv, applied to the device lists of reports.                     *)
(***************************************************************************)
MaxRows == 3

\* DeviceInfo, lines 121-132: the fields of the dataclass.
DeviceFields ==
  {"ip", "port", "device_type", "status", "device_id", "manufacturer", "model", "version",
   "timestamp"}

\* DeviceInfo.to_dict: asdict gives every field of the dataclass; the fields the engine
\* does not set have their defaults (the timestamp is the time of creation, "t").
to_dict(device) ==
  [f \in DeviceFields |->
     IF f \in DOMAIN device THEN device[f] ELSE IF f = "timestamp" THEN "t" ELSE ""]

\* fieldnames of the csv.DictWriter, line 469
fieldnames == <<"ip", "port", "device_type", "status", "device_id", "timestamp">>

\* csv.DictWriter.writerow with the default extrasaction='raise': a key of the row that
\* is not a field name raises ValueError; otherwise the values are written in the order
\* of the field names.
writerow(row) ==
  IF DOMAIN row \ SeqToSet(fieldnames) # {} THEN ValueError
  ELSE [i \in 1..Len(fieldnames) |-> row[fieldnames[i]]]

\* Lines 472-474: the loop over the devices, f being the lines written so far.  The
\* ValueError leaves the with block, which closes the file, for the except clause of
\* line 476.
RECURSIVE WriteRows(_, _)
WriteRows(devices, f) ==
  IF devices = <<>> THEN [file |-> f, error |-> FALSE]
  ELSE LET line == writerow(to_dict(Head(devices)))
       IN IF line = ValueError THEN [file |-> f, error |-> TRUE]
          ELSE WriteRows(Tail(devices), Append(f, line))

\* export_csv: the header (line 471), then the rows.
export_csv(devices) == WriteRows(devices, <<fieldnames>>)

\* The records a scan of 10.0.0.1 can put in its report.
CsvRecords ==
  UNION { { DeviceRecord([ip |-> Ip(10, 0, 0, 1), port |-> p], res) :
              res \in {r \in UnitOutcomes(p, TRUE) : r.kind = "device"} } :
          p \in {22, 23, 80, 5037} }

\* The device lists of reports: up to MaxRows records, no (address, port) key twice.
CsvInputs ==
  { d \in UNION {[1..n -> CsvRecords] : n \in 0..MaxRows} :
      \A i, j \in 1..Len(d) : d[i].port = d[j].port => i = j }

InitCsv ==
  /\ is_scanning = FALSE
  /\ devices_found = <<>>
  /\ scan_result = [devices |-> <<>>, total_scanned |-> 0, total_found |-> 0]
  /\ settings = BaseSettings
  /\ pc = [s \in Scans |-> "idle"]
  /\ targets = [s \in Scans |-> <<>>]
  /\ pool = [s \in Scans |-> 0]
  /\ units = [s \in Scans |-> <<>>]
  /\ scanned = [s \in Scans |-> 0]
  /\ devs = [s \in Scans |-> <<>>]
  /\ notes = [s \in Scans |-> [k \in NoteKinds |-> 0]]
  /\ last = [scan |-> 0, note |-> Note("", <<>>, None)]
  /\ stopNotes = 0
  /\ processed = [s \in Scans |-> 0]
  /\ observed = [s \in Scans |-> FALSE]
  /\ saves = 0
  /\ net = <<>>
  /\ arg \in CsvInputs
  /\ ret = <<>>
  /\ phase = "call"

CallCsv ==
  /\ phase = "call"
  /\ ret' = export_csv(arg)
  /\ phase' = "done"
  /\ UNCHANGED <<arg, net, engineVars>>

SpecCsv == InitCsv /\ [][CallCsv]_vars

\* C27: the CSV export of a report with n records writes the header and exactly n rows
\* with the columns address, port, device type, status, device id and timestamp, one
\* row per record in order, for every n >= 0, and does not end in the error path.
C27_CsvHasOneRowPerRecord ==
  phase = "done" =>
    /\ ~ret.error
    /\ Len(ret.file) = 1 + Len(arg)
    /\ ret.file[1] = <<"ip", "port", "device_type", "status", "device_id", "timestamp">>
    /\ \A i \in 1..Len(arg) :
         /\ Len(ret.file[i + 1]) = 6
         /\ ret.file[i + 1][1] = arg[i].ip
         /\ ret.file[i + 1][2] = arg[i].port
         /\ ret.file[i + 1][3] = arg[i].device_type
         /\ ret.file[i + 1][4] = arg[i].status

====
